---- MODULE Spec2Model ----
(***************************************************************************)
(* Model of leaderscript.js: fetchCSV (ordered proxy fallback), parseCSV,  *)
(* transformData, renderLeaderboard and refreshLeaderboard with its timer. *)
(* A JavaScript string is a sequence of one-character strings.             *)
(***************************************************************************)
EXTENDS Integers, Sequences, FiniteSets, TLC

VARIABLES
  tbody,      \* child rows of the element with id 'leaderboard-body'
  hasTbody,   \* whether document.getElementById('leaderboard-body') finds it
  cyc,        \* one record per invocation of refreshLeaderboard
  writer,     \* history: the invocation whose render last wrote tbody (0: none)
  arg,        \* the argument of the function applied (function specifications)
  ret,        \* its return value
  phase       \* "input" before the call, "called" after it

vars == <<tbody, hasTbody, cyc, writer, arg, ret, phase>>

\* ------------------------------------------------------------------ bounds
MaxTextLen == 6
MaxRows == 3
MaxData == 5
MaxCalls == 2
MaxCycles == 2

\* ----------------------------------------------------------------- strings
Range(s) == {s[i] : i \in 1..Len(s)}

SeqsUpTo(S, n) == UNION {[1..k -> S] : k \in 0..n}

\* String.prototype.trim's white space, as far as the alphabets here reach
IsWs(ch) == ch \in {" ", "\t", "\n", "\r"}

RECURSIVE TrimLeft(_)
TrimLeft(s) ==
  IF s = <<>> THEN s
  ELSE IF IsWs(Head(s)) THEN TrimLeft(Tail(s)) ELSE s

RECURSIVE TrimRight(_)
TrimRight(s) ==
  IF s = <<>> THEN s
  ELSE IF IsWs(s[Len(s)]) THEN TrimRight(SubSeq(s, 1, Len(s) - 1)) ELSE s

Trim(s) == TrimRight(TrimLeft(s))

\* s.split(',') : always at least one field
RECURSIVE SplitAcc(_, _, _, _)
SplitAcc(s, sep, cur, acc) ==
  IF s = <<>> THEN Append(acc, cur)
  ELSE IF Head(s) = sep THEN SplitAcc(Tail(s), sep, <<>>, Append(acc, cur))
  ELSE SplitAcc(Tail(s), sep, Append(cur, Head(s)), acc)

SplitComma(s) == SplitAcc(s, ",", <<>>, <<>>)

\* s.split(/\r?\n/) : a "\r" right before the "\n" belongs to the separator
DropCR(cur) ==
  IF cur # <<>> /\ cur[Len(cur)] = "\r" THEN SubSeq(cur, 1, Len(cur) - 1) ELSE cur

RECURSIVE SplitLinesAcc(_, _, _)
SplitLinesAcc(s, cur, acc) ==
  IF s = <<>> THEN Append(acc, cur)
  ELSE IF Head(s) = "\n" THEN SplitLinesAcc(Tail(s), <<>>, Append(acc, DropCR(cur)))
  ELSE SplitLinesAcc(Tail(s), Append(cur, Head(s)), acc)

SplitLines(s) == SplitLinesAcc(s, <<>>, <<>>)

MapTrim(ss) == [i \in 1..Len(ss) |-> Trim(ss[i])]

\* ---------------------------------------------------------------- parseCSV
\* headers.forEach((header, idx) => row[header] = (cells[idx] || '').trim())
\* a later column of the same name overwrites an earlier one
LastIdx(headers, h) ==
  CHOOSE i \in 1..Len(headers) :
    headers[i] = h /\ \A j \in 1..Len(headers) : headers[j] = h => j <= i

CellAt(cells, idx) == IF idx <= Len(cells) THEN cells[idx] ELSE <<>>

MakeRow(headers, cells) ==
  [h \in Range(headers) |-> Trim(CellAt(cells, LastIdx(headers, h)))]

IsSkippedNever(cells) == FALSE

\* if (cells.length === 1 && cells[0] === '') continue
IsSkipped(cells) == Len(cells) = 1 /\ cells[1] = <<>>

RECURSIVE ParseLines(_, _, _, _)
ParseLines(lines, headers, i, rows) ==
  IF i > Len(lines) THEN rows
  ELSE LET cells == SplitComma(lines[i])
       IN  IF IsSkipped(cells) THEN ParseLines(lines, headers, i + 1, rows)
           ELSE ParseLines(lines, headers, i + 1, Append(rows, MakeRow(headers, cells)))

parseCSV(csv) ==
  LET lines == SplitLines(Trim(csv))
      headers == MapTrim(SplitComma(lines[1]))
  IN  IF Len(lines) = 0 THEN <<>> ELSE ParseLines(lines, headers, 2, <<>>)

\* ------------------------------------------------- specification: parseCSV
ParseAlphabet == {"h", ",", " ", "\n", "\r"}

InitParse ==
  /\ arg \in SeqsUpTo(ParseAlphabet, MaxTextLen)
  /\ ret = <<>>
  /\ phase = "input"
  /\ tbody = <<>>
  /\ hasTbody = TRUE
  /\ cyc = <<>>
  /\ writer = 0

CallParse ==
  /\ phase = "input"
  /\ ret' = parseCSV(arg)
  /\ phase' = "called"
  /\ UNCHANGED <<arg, tbody, hasTbody, cyc, writer>>

NextParse == CallParse

SpecParse == InitParse /\ [][NextParse]_vars

\* ------------------------------------------------------ claim C6 (parseCSV)
NonEmptyLine(l) == l # <<>>

\* the Record built from one data line: keyed by every (trimmed) header name,
\* the value of a column beyond the line's fields being ''
RecordOf(row, headerLine, line) ==
  LET hs == SplitComma(headerLine)
      cs == SplitComma(line)
  IN  /\ DOMAIN row = {Trim(hs[k]) : k \in 1..Len(hs)}
      /\ \A k \in 1..Len(hs) :
           (\A j \in 1..Len(hs) : Trim(hs[j]) = Trim(hs[k]) => j <= k)
             => row[Trim(hs[k])] = Trim(IF k <= Len(cs) THEN cs[k] ELSE <<>>)

OneRecordPerLine(rows, lines) ==
  LET data == SelectSeq(Tail(lines), NonEmptyLine)
  IN  /\ Len(rows) = Len(data)
      /\ \A i \in 1..Len(rows) : RecordOf(rows[i], lines[1], data[i])

\* C6 as stated: for a text whose first line is a header (it holds a character
\* that is not white space), parseCSV returns one Record per non-blank line
\* after the header, in source order, each keyed by every header name.
C6_AsStated ==
  (phase = "called" /\ Trim(SplitLines(arg)[1]) # <<>>)
    => OneRecordPerLine(ret, SplitLines(arg))

\* C6 amended: parseCSV returns one Record per non-empty line that follows the
\* first line of the TRIMMED text, in source order, each keyed by every header
\* name with '' for the columns beyond the line's fields: white space at the
\* ends of the text, white-space-only last lines included, is dropped before
\* the text is split.
C6_RecordPerLineOfTrimmedText ==
  phase = "called" => OneRecordPerLine(ret, SplitLines(Trim(arg)))

\* a header of two columns, a blank line that is skipped, a one-field line
C6_Witness ==
  /\ phase = "called"
  /\ LET lines == SplitLines(Trim(arg))
     IN  /\ Len(SplitComma(lines[1])) = 2
         /\ \E i \in 2..Len(lines) : lines[i] = <<>>
         /\ \E i \in 2..Len(lines) : lines[i] # <<>> /\ Len(SplitComma(lines[i])) = 1
         /\ Len(ret) = 1

\* ----------------------------------------------------------- transformData
\* the value undefined, where a string is expected
Undef == <<"undefined">>

\* a JavaScript number: NaN, or an integer (the score alphabets below hold no
\* ".", "e" or "Infinity", so every number parsed is an integer)
NaN == [nan |-> TRUE, val |-> 0]

Num(n) == [nan |-> FALSE, val |-> n]

isNaN(x) == x.nan

Minus(x, y) == IF x.nan \/ y.nan THEN NaN ELSE Num(x.val - y.val)

Digits == {"0", "1", "2", "3", "4", "5", "6", "7", "8", "9"}

DigitVal(ch) ==
  CASE ch = "0" -> 0 [] ch = "1" -> 1 [] ch = "2" -> 2 [] ch = "3" -> 3
    [] ch = "4" -> 4 [] ch = "5" -> 5 [] ch = "6" -> 6 [] ch = "7" -> 7
    [] ch = "8" -> 8 [] ch = "9" -> 9

\* the value of the longest prefix of digits of s, after acc; seen: a digit was read
RECURSIVE DigitsPrefix(_, _, _)
DigitsPrefix(s, acc, seen) ==
  IF s # <<>> /\ Head(s) \in Digits
  THEN DigitsPrefix(Tail(s), 10 * acc + DigitVal(Head(s)), TRUE)
  ELSE IF seen THEN Num(acc) ELSE NaN

\* parseFloat: leading white space skipped, an optional sign, then the longest
\* numeric prefix; NaN when there is none (parseFloat(undefined) is NaN)
parseFloat(str) ==
  LET t == TrimLeft(str)
      signed == t # <<>> /\ Head(t) \in {"+", "-"}
      n == DigitsPrefix(IF signed THEN Tail(t) ELSE t, 0, FALSE)
  IN  IF str = Undef \/ isNaN(n) THEN NaN
      ELSE IF t # <<>> /\ Head(t) = "-" THEN Num(0 - n.val) ELSE n

\* property names looked up by transformData
kFirstName == <<"F", "i", "r", "s", "t", " ", "N", "a", "m", "e">>
kFirstname == <<"F", "i", "r", "s", "t", " ", "n", "a", "m", "e">>
kFirst == <<"F", "i", "r", "s", "t">>
kLastName == <<"L", "a", "s", "t", " ", "N", "a", "m", "e">>
kLastname == <<"L", "a", "s", "t", " ", "n", "a", "m", "e">>
kLast == <<"L", "a", "s", "t">>
kDealership == <<"D", "e", "a", "l", "e", "r", "s", "h", "i", "p">>
kDealer == <<"D", "e", "a", "l", "e", "r">>
kCompany == <<"C", "o", "m", "p", "a", "n", "y">>
kTotalScore == <<"T", "o", "t", "a", "l", " ", "S", "c", "o", "r", "e">>
kScore == <<"S", "c", "o", "r", "e">>
kTotal == <<"T", "o", "t", "a", "l">>

\* row[key]
Get(row, key) == IF key \in DOMAIN row THEN row[key] ELSE Undef

\* Boolean(v) of a string or undefined
Truthy(v) == v # Undef /\ v # <<>>

\* row[k1] || row[k2] || row[k3]
Or3(row, k1, k2, k3) ==
  IF Truthy(Get(row, k1)) THEN Get(row, k1)
  ELSE IF Truthy(Get(row, k2)) THEN Get(row, k2)
  ELSE Get(row, k3)

\* [firstName, lastName].filter(Boolean).join(' ')
JoinName(firstName, lastName) ==
  IF Truthy(firstName) /\ Truthy(lastName) THEN firstName \o <<" ">> \o lastName
  ELSE IF Truthy(firstName) THEN firstName
  ELSE IF Truthy(lastName) THEN lastName
  ELSE <<>>

ScoreOfUnchecked(row) == parseFloat(Or3(row, kTotalScore, kScore, kTotal))

\* const score = parseFloat(scoreStr); ... isNaN(score) ? 0 : score
ScoreOf(row) ==
  LET score == parseFloat(Or3(row, kTotalScore, kScore, kTotal))
  IN  IF isNaN(score) THEN Num(0) ELSE score

\* the callback of rows.map
ToEntry(row) ==
  [name |-> JoinName(Or3(row, kFirstName, kFirstname, kFirst),
                     Or3(row, kLastName, kLastname, kLast)),
   dealership |-> Or3(row, kDealership, kDealer, kCompany),
   score |-> ScoreOf(row)]

CompareAscending(a, b) == Minus(a.score, b.score)

\* the comparator (a, b) => b.score - a.score
Compare(a, b) == Minus(b.score, a.score)

\* Array.prototype.sort is stable, and takes a NaN from the comparator as +0:
\* e goes behind every element the comparator does not put after it
RECURSIVE InsertSorted(_, _)
InsertSorted(sorted, e) ==
  IF sorted = <<>> THEN <<e>>
  ELSE LET v == Compare(sorted[Len(sorted)], e)
       IN  IF ~v.nan /\ v.val > 0
           THEN Append(InsertSorted(SubSeq(sorted, 1, Len(sorted) - 1), e),
                       sorted[Len(sorted)])
           ELSE Append(sorted, e)

RECURSIVE SortFrom(_, _, _)
SortFrom(entries, i, sorted) ==
  IF i > Len(entries) THEN sorted
  ELSE SortFrom(entries, i + 1, InsertSorted(sorted, entries[i]))

transformData(rows) == SortFrom([i \in 1..Len(rows) |-> ToEntry(rows[i])], 1, <<>>)

\* -------------------------------------------- specification: transformData
\* score cells: parsable, parsable by their prefix, and not parsable
ScoreCells ==
  {<<"9">>, <<"7">>, <<" ", "7", "x">>, <<"-", "7">>, <<"x">>, <<"-">>, <<"x", "9">>}

\* the Records offered: two participants, each with a score column filled from
\* ScoreCells, with no score column, with empty score columns, and with the
\* score in a later column of the three
SampleRecords ==
  LET who == {kFirstName :> <<"A">> @@ kLast :> <<"L">> @@ kDealer :> <<"D">>,
              kFirst :> <<"B">>}
      scores == {kTotalScore :> c : c \in ScoreCells}
                  \cup {kScore :> <<>> @@ kTotal :> <<>>}
                  \cup {kTotalScore :> <<>> @@ kScore :> <<"9">>}
      both == {w @@ sc : w \in who, sc \in scores}
  IN  both \cup who

InitTransform ==
  /\ arg \in SeqsUpTo(SampleRecords, MaxRows)
  /\ ret = <<>>
  /\ phase = "input"
  /\ tbody = <<>>
  /\ hasTbody = TRUE
  /\ cyc = <<>>
  /\ writer = 0

CallTransform ==
  /\ phase = "input"
  /\ ret' = transformData(arg)
  /\ phase' = "called"
  /\ UNCHANGED <<arg, tbody, hasTbody, cyc, writer>>

NextTransform == CallTransform

SpecTransform == InitTransform /\ [][NextTransform]_vars

\* ------------------------------------------------- claims C2, C7 (transform)
Perms(n) == {p \in [1..n -> 1..n] : \A i, j \in 1..n : p[i] = p[j] => i = j}

\* the name and the affiliation an Entry must carry for a Record
SameWho(entry, row) ==
  /\ entry.name = JoinName(Or3(row, kFirstName, kFirstname, kFirst),
                           Or3(row, kLastName, kLastname, kLast))
  /\ entry.dealership = Or3(row, kDealership, kDealer, kCompany)

\* the number a score cell stands for when it is parsable: the digits that
\* follow its leading white space and optional sign
HasNumber(cell) ==
  LET t == TrimLeft(cell)
      u == IF t # <<>> /\ Head(t) \in {"+", "-"} THEN Tail(t) ELSE t
  IN  u # <<>> /\ Head(u) \in Digits

\* the score field of a Record is missing, empty or not parsable
BadScoreField(row) ==
  LET present == {k \in {kTotalScore, kScore, kTotal} : k \in DOMAIN row /\ row[k] # <<>>}
  IN  \/ present = {}
      \/ kTotalScore \in present /\ ~HasNumber(row[kTotalScore])
      \/ kTotalScore \notin present /\ kScore \in present /\ ~HasNumber(row[kScore])
      \/ present = {kTotal} /\ ~HasNumber(row[kTotal])

\* C2: the list transformData returns has the length of its input, its scores
\* never increase from one entry to the next, and entries of equal score keep
\* the order their records had in the input.
C2_SortedStable ==
  phase = "called" =>
    /\ Len(ret) = Len(arg)
    /\ \A k \in 1..Len(ret) : ~ret[k].score.nan
    /\ \A k \in 1..(Len(ret) - 1) : ret[k].score.val >= ret[k + 1].score.val
    /\ \E p \in Perms(Len(arg)) :
         /\ \A k \in 1..Len(ret) : SameWho(ret[k], arg[p[k]])
         /\ \A k, l \in 1..Len(ret) :
              (k < l /\ ret[k].score = ret[l].score) => p[k] < p[l]

\* two records of equal score around one of a higher score
C2_Witness ==
  /\ phase = "called"
  /\ Len(arg) = 3
  /\ ScoreOf(arg[1]) = Num(7) /\ ScoreOf(arg[2]) = Num(9) /\ ScoreOf(arg[3]) = Num(7)
  /\ arg[1] # arg[3]
  /\ ret[2].name # ret[3].name

\* C7: a record whose score field is missing, empty or not parsable yields an
\* entry of score exactly 0, and that entry is in the list returned.
C7_BadScoreIsZero ==
  phase = "called" =>
    /\ Len(ret) = Len(arg)
    /\ \E p \in Perms(Len(arg)) :
         \A k \in 1..Len(ret) :
           /\ SameWho(ret[k], arg[p[k]])
           /\ BadScoreField(arg[p[k]]) => ret[k].score = Num(0)

\* a missing score, an empty one and an unparsable one, next to a parsed one
C7_Witness ==
  /\ phase = "called"
  /\ Len(arg) = 3
  /\ \E i \in 1..3 : DOMAIN arg[i] \cap {kTotalScore, kScore, kTotal} = {}
  /\ \E i \in 1..3 : kTotalScore \in DOMAIN arg[i] /\ arg[i][kTotalScore] = <<"x">>
  /\ \E i \in 1..3 : kTotalScore \in DOMAIN arg[i] /\ arg[i][kTotalScore] = <<"9">>
  /\ ret[1].score = Num(9) /\ ret[2].score = Num(0) /\ ret[3].score = Num(0)

\* ------------------------------------------------------- renderLeaderboard
\* el.textContent = v : undefined shows as the empty string
TextContent(v) == IF v = Undef THEN <<>> ELSE v

RowClassTopTwoOnly(rank) ==
  IF rank = 1 THEN "rank-1" ELSE IF rank = 2 THEN "rank-2" ELSE "rank-default"

\* tr.classList.add(...)
RowClass(rank) ==
  IF rank = 1 THEN "rank-1"
  ELSE IF rank = 2 THEN "rank-2"
  ELSE IF rank = 3 THEN "rank-3"
  ELSE "rank-default"

\* badgeBg, badgeBorder, badgeColor
BadgeColors(rank) ==
  LET default == [bg |-> "#3893B7", border |-> "#21A4D2", color |-> "#FCF7EF"]
  IN  IF rank = 1 THEN [default EXCEPT !.bg = "#3893B7", !.border = "#21A4D2"]
      ELSE IF rank = 2
        THEN [default EXCEPT !.bg = "#E8F4F8", !.border = "#3893B7", !.color = "#3893B7"]
      ELSE IF rank = 3
        THEN [default EXCEPT !.bg = "#FCF7EF", !.border = "#21A4D2", !.color = "#21A4D2"]
      ELSE default

\* the tr built for one entry; `#${rank}` and `${entry.score}%` keep the number
\* beside the character added to it
RenderRow(entry, index) ==
  LET rank == index + 1
  IN  [cls |-> RowClass(rank),
       badge |-> BadgeColors(rank),
       badgeText |-> <<"#", rank>>,
       name |-> TextContent(entry.name),
       dealershipSmall |-> TextContent(entry.dealership),
       dealership |-> TextContent(entry.dealership),
       scoreText |-> <<entry.score, "%">>]

KeepChildren(children) == children

\* tbody.innerHTML = ''
ClearChildren(children) == <<>>

\* data.forEach((entry, index) => { ...; tbody.appendChild(tr) })
RECURSIVE AppendRows(_, _, _)
AppendRows(children, data, index) ==
  IF index >= Len(data) THEN children
  ELSE AppendRows(Append(children, RenderRow(data[index + 1], index)), data, index + 1)

renderLeaderboardAppendOnly(children, present, data) ==
  IF ~present THEN children ELSE AppendRows(children, data, 0)

\* the children of tbody after renderLeaderboard(data); without the element
\* the function returns at once
renderLeaderboard(children, present, data) ==
  IF ~present THEN children ELSE AppendRows(ClearChildren(children), data, 0)

\* what the page holds in tbody before the script first renders
InitialRows == <<[cls |-> "placeholder"]>>

\* ---------------------------------------- specification: renderLeaderboard
\* arg: the list of the last call, ret: tbody's children before that call,
\* phase: the number of calls made
SampleEntries ==
  {[name |-> <<"A", " ", "L">>, dealership |-> <<"D">>, score |-> Num(9)],
   [name |-> <<"B">>, dealership |-> Undef, score |-> Num(0)]}

InitRender ==
  /\ tbody = InitialRows
  /\ hasTbody \in BOOLEAN
  /\ arg = <<>>
  /\ ret = <<>>
  /\ phase = 0
  /\ cyc = <<>>
  /\ writer = 0

CallRender(data) ==
  /\ phase < MaxCalls
  /\ tbody' = renderLeaderboard(tbody, hasTbody, data)
  /\ arg' = data
  /\ ret' = tbody
  /\ phase' = phase + 1
  /\ UNCHANGED <<hasTbody, cyc, writer>>

NextRender == \E data \in SeqsUpTo(SampleEntries, MaxData) : CallRender(data)

SpecRender == InitRender /\ [][NextRender]_vars

\* ---------------------------------------------------- claims C4, C8 (render)
\* the row shows this entry at this rank
RowShows(row, entry, rank) ==
  /\ row.badgeText = <<"#", rank>>
  /\ row.name = entry.name
  /\ row.scoreText = <<entry.score, "%">>
  /\ row.dealership = (IF entry.dealership = Undef THEN <<>> ELSE entry.dealership)
  /\ row.dealershipSmall = row.dealership

\* C4: after any calls of renderLeaderboard on an existing surface, the surface
\* holds one row per entry of the last call's list, in list order with ranks
\* 1..n, and no row of an earlier call; a call with the list of the call before
\* leaves the rows as they were.
C4_RowsOfLastCall ==
  /\ []((hasTbody /\ phase >= 1) =>
          /\ Len(tbody) = Len(arg)
          /\ \A i \in 1..Len(arg) : RowShows(tbody[i], arg[i], i))
  /\ [][(hasTbody /\ phase >= 1 /\ phase' = phase + 1 /\ arg' = arg)
          => tbody' = tbody]_vars

\* a list of five entries rendered, then a list of two
C4_Witness ==
  hasTbody /\ phase = 2 /\ Len(ret) = 5 /\ Len(arg) = 2 /\ Len(tbody) = 2

Triple(row) == <<row.badge.bg, row.badge.border, row.badge.color>>

\* ranks 1, 2, 3 and "4 or more"
RankGroup(rank) == IF rank >= 4 THEN 4 ELSE rank

Rendered == hasTbody /\ phase >= 1

\* C8 as stated: the row class and the badge colour triple of ranks 1, 2 and 3
\* differ from one another and from those of the ranks >= 4, which share one.
C8_AsStated ==
  Rendered =>
    \A i, j \in 1..Len(tbody) :
      IF RankGroup(i) = RankGroup(j)
      THEN tbody[i].cls = tbody[j].cls /\ Triple(tbody[i]) = Triple(tbody[j])
      ELSE tbody[i].cls # tbody[j].cls /\ Triple(tbody[i]) # Triple(tbody[j])

\* C8 amended: the row classes of ranks 1, 2, 3 and of the ranks >= 4 are
\* pairwise different, so the treatments are; the badge colour triples of ranks
\* 2 and 3 differ from each other and from every other rank's, but rank 1's
\* triple is the one shared by the ranks >= 4.
C8_ClassesDistinctRank1TripleShared ==
  Rendered =>
    \A i, j \in 1..Len(tbody) :
      /\ (tbody[i].cls = tbody[j].cls) <=> (RankGroup(i) = RankGroup(j))
      /\ (Triple(tbody[i]) = Triple(tbody[j]))
           <=> \/ RankGroup(i) = RankGroup(j)
               \/ {RankGroup(i), RankGroup(j)} = {1, 4}

\* a rendered list that reaches rank 5
C8_Witness == Rendered /\ Len(tbody) = 5 /\ Triple(tbody[1]) = Triple(tbody[4])

\* ---------------------------------------------------------------- fetchCSV
\* const proxies = [ '', 'https://corsproxy.io/?', 'https://api.allorigins.win/raw?url=' ]
proxies == <<"", "https://corsproxy.io/?", "https://api.allorigins.win/raw?url=">>

\* errors, and the undefined that lastError holds before any is caught
NoError == [name |-> "undefined", status |-> 0]
NetworkError == [name |-> "TypeError", status |-> 0]
UnableToFetch == [name |-> "Unable to fetch CSV", status |-> 0]

\* new Error(`HTTP ${resp.status}`)
HttpError(status) == [name |-> "HTTP", status |-> status]

\* resp.ok
IsOk(status) == status >= 200 /\ status <= 299

IsNonEmpty(text) == text # <<>>

\* if (text && text.trim().length > 0)
IsUsable(text) == text # <<>> /\ Len(Trim(text)) > 0

KeepFirstError(lastError, err) == IF lastError = NoError THEN err ELSE lastError

\* catch (err) { lastError = err; }
Capture(lastError, err) == err

\* throw lastError || new Error('Unable to fetch CSV')
Thrown(lastError) == IF lastError # NoError THEN lastError ELSE UnableToFetch

NextPrefixOrRestart(i) == IF i < Len(proxies) THEN i + 1 ELSE 1

\* for (const prefix of proxies): the index after i, 0 when the list is done
NextPrefix(i) == IF i < Len(proxies) THEN i + 1 ELSE 0

\* ------------------------------------------------------ refreshLeaderboard
ClearedInCatch(children) == <<>>

\* catch (error) { console.error(...) } : the handler leaves tbody as it is
TbodyAfterCatch(children) == children

\* what the network may answer
Statuses == {200, 404}

\* 'Score,First\n7,A\n9,B' and 'Total,Last\n5,C\n'
BodyA == <<"S", "c", "o", "r", "e", ",", "F", "i", "r", "s", "t", "\n", "7", ",", "A", "\n", "9", ",", "B">>

BodyB == <<"T", "o", "t", "a", "l", ",", "L", "a", "s", "t", "\n", "5", ",", "C", "\n">>

Bodies == {<<>>, <<" ", "\n">>, BodyA, BodyB}

Invocations == 1..MaxCycles

\* the result of one attempt, kept as history: the error it raised, "empty"
\* for a body that is not usable, "ok" with the body returned
Result(name, status, body) == [name |-> name, status |-> status, body |-> body]

ErrorResult(err) == Result(err.name, err.status, <<>>)

NoResult == Result("none", 0, <<>>)

\* an invocation: pc, the index i of the prefix in flight and lastError are
\* the code's; reqs (the prefixes requested), res (the results of the attempts
\* that failed), last (the result of the attempt that ended the invocation),
\* seen and w0 (tbody and its last writer when the invocation started) are
\* history, dropped with the locals when the invocation ends
NotStarted ==
  [pc |-> "idle", i |-> 0, lastError |-> NoError, csv |-> <<>>, outcome |-> "none",
   logged |-> NoError, renders |-> 0, logs |-> 0, reqs |-> <<>>, res |-> <<>>,
   last |-> NoResult, seen |-> <<>>, w0 |-> 0]

\* refreshLeaderboard() up to its first await: fetchCSV requests the direct URL
Started(children, w) ==
  [NotStarted EXCEPT !.pc = "awaitFetch", !.i = 1, !.reqs = <<proxies[1]>>,
                     !.seen = children, !.w0 = w]

Ended(me, outcome, r) ==
  [me EXCEPT !.pc = "done", !.i = 0, !.lastError = NoError, !.outcome = outcome,
             !.res = <<>>, !.last = r, !.seen = <<>>, !.w0 = 0]

\* the script's last two statements: the initial load has run to its first
\* await and the interval timer is set
Init ==
  /\ hasTbody \in BOOLEAN
  /\ tbody = InitialRows
  /\ cyc = [c \in Invocations |-> IF c = 1 THEN Started(InitialRows, 0) ELSE NotStarted]
  /\ writer = 0
  /\ arg = <<>>
  /\ ret = <<>>
  /\ phase = "script"

\* the interval timer fires, or refreshLeaderboard is called by hand, whatever
\* the earlier invocations are doing
TimerFire(c) ==
  /\ cyc[c].pc = "idle"
  /\ cyc[c - 1].pc # "idle"
  /\ cyc' = [cyc EXCEPT ![c] = Started(tbody, writer)]
  /\ UNCHANGED <<tbody, hasTbody, writer, arg, ret, phase>>

\* the attempt with prefix i of invocation c has failed with result r, and
\* lastError is le: the loop goes on to the next prefix, or fetchCSV throws and
\* refreshLeaderboard catches and logs
AttemptFailed(c, le, r) ==
  LET n == NextPrefix(cyc[c].i)
  IN  IF n # 0
      THEN /\ cyc' = [cyc EXCEPT ![c] = [@ EXCEPT !.pc = "awaitFetch", !.i = n,
                                                   !.lastError = le,
                                                   !.res = Append(@, r),
                                                   !.reqs = Append(@, proxies[n])]]
           /\ UNCHANGED <<tbody, writer>>
      ELSE /\ cyc' = [cyc EXCEPT ![c] = [Ended(@, "logged", r) EXCEPT
                                           !.logged = Thrown(le), !.logs = @ + 1]]
           /\ tbody' = TbodyAfterCatch(tbody)
           /\ UNCHANGED writer

\* await fetch(target) settles: rejected, or a response whose status decides
FetchSettle(c, rejected, status) ==
  /\ cyc[c].pc = "awaitFetch"
  /\ IF rejected
     THEN AttemptFailed(c, Capture(cyc[c].lastError, NetworkError),
                        ErrorResult(NetworkError))
     ELSE IF ~IsOk(status)
     THEN AttemptFailed(c, Capture(cyc[c].lastError, HttpError(status)),
                        ErrorResult(HttpError(status)))
     ELSE /\ cyc' = [cyc EXCEPT ![c].pc = "awaitText"]
          /\ UNCHANGED <<tbody, writer>>
  /\ UNCHANGED <<hasTbody, arg, ret, phase>>

\* fetchCSV returns text: its caller resumes within the same run of the
\* microtask queue, before any other response is handled, and parses,
\* transforms and renders without another await
Succeeded(c, text) ==
  /\ cyc' = [cyc EXCEPT ![c] = [Ended(@, "rendered", Result("ok", 200, text)) EXCEPT
                                  !.csv = text, !.renders = @ + 1]]
  /\ tbody' = renderLeaderboard(tbody, hasTbody, transformData(parseCSV(text)))
  /\ writer' = IF hasTbody THEN c ELSE writer

\* await resp.text() settles: rejected, or the body
TextSettle(c, rejected, text) ==
  /\ cyc[c].pc = "awaitText"
  /\ IF rejected
     THEN AttemptFailed(c, Capture(cyc[c].lastError, NetworkError),
                        ErrorResult(NetworkError))
     ELSE IF IsUsable(text)
     THEN Succeeded(c, text)
     ELSE AttemptFailed(c, cyc[c].lastError, Result("empty", 200, text))
  /\ UNCHANGED <<hasTbody, arg, ret, phase>>

\* a network failure, or a response with one of the statuses
FetchAnswers == {<<TRUE, 0>>} \cup {<<FALSE, st>> : st \in Statuses}

\* a failure while the body is read, or one of the bodies
TextAnswers == {<<TRUE, <<>> >>} \cup {<<FALSE, b>> : b \in Bodies}

FetchSettles(c) == \E a \in FetchAnswers : FetchSettle(c, a[1], a[2])

TextSettles(c) == \E a \in TextAnswers : TextSettle(c, a[1], a[2])

Next ==
  \E c \in Invocations :
    \/ c > 1 /\ TimerFire(c)
    \/ FetchSettles(c)
    \/ TextSettles(c)

Spec == Init /\ [][Next]_vars

\* every request made is answered or fails
FairSpec ==
  Spec /\ \A c \in Invocations : WF_vars(FetchSettles(c)) /\ WF_vars(TextSettles(c))

\* ------------------------------------------------ claims C1, C5 (fetchCSV)
\* invocation c ends in this step with a render / with a logged error
Renders(c) == cyc[c].outcome = "none" /\ cyc'[c].outcome = "rendered"

Fails(c) == cyc[c].outcome = "none" /\ cyc'[c].outcome = "logged"

NonBlank(text) == \E k \in 1..Len(text) : text[k] \notin {" ", "\t", "\n", "\r"}

IsFailure(r) == r.name \in {"TypeError", "HTTP", "empty"}

\* C1: the prefixes are requested in the declared order; fetchCSV returns the
\* body of the first attempt answered with a success status and a body that is
\* not blank, every attempt before it having failed, and once it has returned
\* the invocation requests nothing more.
C1_FirstUsableBodyInOrder ==
  /\ [](\A c \in Invocations : cyc[c].reqs = SubSeq(proxies, 1, Len(cyc[c].reqs)))
  /\ [][\A c \in Invocations :
          /\ Renders(c) =>
               /\ Len(cyc[c].res) = Len(cyc[c].reqs) - 1
               /\ \A k \in 1..Len(cyc[c].res) : IsFailure(cyc[c].res[k])
               /\ cyc'[c].last.name = "ok" /\ IsOk(cyc'[c].last.status)
               /\ NonBlank(cyc'[c].last.body)
               /\ cyc'[c].csv = cyc'[c].last.body
               /\ cyc'[c].reqs = cyc[c].reqs
          /\ cyc[c].pc = "done" => cyc'[c] = cyc[c]]_vars

\* the direct request failed, the first proxy answered, the second was not asked
C1_Witness ==
  \E c \in Invocations :
    cyc[c].outcome = "rendered" /\ Len(cyc[c].reqs) = 2 /\ cyc[c].csv = BodyA

\* the error of the last attempt that raised one, the generic error if none did
RECURSIVE LastCaptured(_)
LastCaptured(results) ==
  IF results = <<>> THEN UnableToFetch
  ELSE LET r == results[Len(results)]
       IN  IF r.name \in {"TypeError", "HTTP"} THEN [name |-> r.name, status |-> r.status]
           ELSE LastCaptured(SubSeq(results, 1, Len(results) - 1))

C3_AsStated ==
  [][\A c \in Invocations : Fails(c) => tbody' = cyc[c].seen]_vars

\* C3 amended: when an invocation fails it is aborted with its error logged and
\* has written nothing to the surface: the failing step leaves the rows as they
\* are, and they are the rows held before the invocation started unless another
\* invocation rendered in the meantime; never cleared, never partly rendered.
C3_FailedCycleWritesNothing ==
  [][\A c \in Invocations :
       Fails(c) =>
         /\ tbody' = tbody
         /\ writer' = writer /\ writer # c
         /\ cyc'[c].logs = 1 /\ cyc'[c].logged # NoError
         /\ cyc'[c].pc = "done" /\ cyc'[c].renders = 0
         /\ (writer = cyc[c].w0 => tbody' = cyc[c].seen)]_vars

\* an invocation that started on a rendered surface has failed, and its rows stay
C3_Witness ==
  /\ hasTbody
  /\ cyc[1].outcome = "rendered" /\ cyc[2].outcome = "logged"
  /\ writer = 1 /\ Len(tbody) = 2

\* the rows that show the whole of one fetched body
FullRender(csv) ==
  LET data == transformData(parseCSV(csv))
  IN  [k \in 1..Len(data) |-> RenderRow(data[k], k - 1)]

\* C9: under any interleaving of invocations the surface is written only by a
\* render and only as a whole: it holds its initial rows, or all the rows of
\* the body fetched by one invocation whose fetch succeeded, and nothing else.
C9_SurfaceIsOneFullRender ==
  /\ [](IF writer = 0 THEN tbody = InitialRows
        ELSE /\ cyc[writer].outcome = "rendered"
             /\ cyc[writer].last.name = "ok"
             /\ tbody = FullRender(cyc[writer].last.body))
  /\ [][tbody' # tbody => \E c \in Invocations : Renders(c) /\ writer' = c]_vars

\* the invocation that started first rendered last, over the rows of the other
C9_Witness ==
  /\ hasTbody /\ writer = 1
  /\ cyc[1].outcome = "rendered" /\ cyc[2].outcome = "rendered"
  /\ cyc[1].csv = BodyB /\ cyc[2].csv = BodyA
  /\ Len(tbody) = 1

NoRepeat(seq) == \A k, l \in 1..Len(seq) : seq[k] = seq[l] => k = l

\* the settlements an invocation may still need: two for each prefix not yet
\* tried (the response, then its body)
Fuel(me) ==
  IF me.pc = "idle" THEN 2 * Len(proxies) + 1
  ELSE IF me.pc = "done" THEN 0
  ELSE 2 * (Len(proxies) - me.i) + (IF me.pc = "awaitFetch" THEN 2 ELSE 1)

\* C10: an invocation requests each prefix at most once (three requests at
\* most); while it is not finished it waits only for the answer to its one
\* request in flight, and every answer brings it strictly closer to its end,
\* so with every request answered or failing it ends: with one render or with
\* one logged error, never both and never an error passed to its caller;
\* whatever an invocation does, the timer can start the next one.
C10_OnePassThenOneOutcome ==
  /\ [](\A c \in Invocations :
          /\ Len(cyc[c].reqs) <= Len(proxies) /\ NoRepeat(cyc[c].reqs)
          /\ cyc[c].pc = "done" <=> cyc[c].outcome # "none"
          /\ cyc[c].outcome = "rendered" => cyc[c].renders = 1 /\ cyc[c].logs = 0
          /\ cyc[c].outcome = "logged" => cyc[c].renders = 0 /\ cyc[c].logs = 1
          /\ cyc[c].outcome = "none" => cyc[c].renders = 0 /\ cyc[c].logs = 0
          /\ cyc[c].pc = "awaitFetch" => ENABLED FetchSettles(c)
          /\ cyc[c].pc = "awaitText" => ENABLED TextSettles(c)
          /\ (c > 1 /\ cyc[c].pc = "idle" /\ cyc[c - 1].pc # "idle")
               => ENABLED TimerFire(c))
  /\ [][\A c \in Invocations :
          cyc'[c] # cyc[c] => Fuel(cyc'[c]) < Fuel(cyc[c])]_vars

\* the same end of every invocation as a liveness property, for FairSpec
EveryInvocationEnds ==
  \A c \in Invocations : (cyc[c].pc # "idle") ~> (cyc[c].pc = "done")

\* one invocation ended with a logged error after three requests, the next
\* with a render
C10_Witness ==
  /\ cyc[1].outcome = "logged" /\ Len(cyc[1].reqs) = 3
  /\ cyc[2].outcome = "rendered" /\ cyc[2].renders = 1

====
